---- MODULE Spec2Model ----
(***************************************************************************)
(* A model of the validator staker ledger of avalanchego's platformvm      *)
(* state package: the staker ordering (Staker.Less) and the binary codec   *)
(* of the persisted validator weight diffs (marshalDiffKey and friends).   *)
(*                                                                         *)
(* Byte strings are sequences of integers 0..255.  A uint64 is held as     *)
(* four 16-bit limbs, most significant first, because TLC's integers are   *)
(* 32 bits wide; encoding/binary's big-endian conversion is computed from  *)
(* the limbs by division and remainder.  A time.Time is the integer count  *)
(* of its instant.                                                         *)
(***************************************************************************)
EXTENDS Integers, Sequences, FiniteSets, TLC

(***************************************************************************)
(* Bounds of the model.                                                    *)
(***************************************************************************)
\* NextTime of a sampled staker ranges over 0..MaxNextTime.
MaxNextTime == 1
\* Priority of a sampled staker ranges over 1..MaxPriority.
MaxPriority == 2
\* Sampled identifiers have their first and last bytes in 0..MaxIDByte.
MaxIDByte == 1
\* The fields Less must not read take MaxVariant + 1 different settings.
MaxVariant == 2
\* Sampled heights and amounts include every value in 0..MaxSmallU64.
MaxSmallU64 == 2
\* A damaged key or value has lost up to MaxDrop leading bytes.
MaxDrop == 1
\* A damaged key or value has gained up to MaxPad trailing bytes.
MaxPad == 1
\* A history of weight changes runs over the blocks 1..MaxHistoryHeight.
MaxHistoryHeight == 5
\* A staker is shifted ahead at most MaxShifts times.
MaxShifts == 3
\* An iterator runs over at most MaxIterated stakers.
MaxIterated == 3
\* The router is told of at most MaxCalls connections and disconnections.
MaxCalls == 4

(***************************************************************************)
(* Sizes of the identifier types (package ids).                            *)
(***************************************************************************)
IDLen == 32
NodeIDLen == 20

\* An identifier of n bytes, zero but for its first and its last byte.
IDBytes(n, first, last) ==
    [i \in 1..n |-> IF i = 1 THEN first ELSE IF i = n THEN last ELSE 0]

\* ids.Empty, which is also constants.PrimaryNetworkID.
EmptyID == [i \in 1..IDLen |-> 0]

\* The sampled 32-byte identifiers: they differ in the first byte only, in
\* the last byte only, or in both.
SampleIDs ==
    { IDBytes(IDLen, 0, l) : l \in 0..MaxIDByte } \cup { IDBytes(IDLen, 1, 0) }

SampleNodeIDs ==
    { IDBytes(NodeIDLen, 0, l) : l \in 0..MaxIDByte } \cup { IDBytes(NodeIDLen, 255, 255) }

(***************************************************************************)
(* bytes.Compare: -1, 0 or 1 as x is lexicographically less than, equal    *)
(* to or greater than y; a proper prefix is less.                          *)
(***************************************************************************)
RECURSIVE BytesCompare(_, _)
BytesCompare(x, y) ==
    IF x = <<>> /\ y = <<>> THEN 0
    ELSE IF x = <<>> THEN -1
    ELSE IF y = <<>> THEN 1
    ELSE IF Head(x) < Head(y) THEN -1
    ELSE IF Head(x) > Head(y) THEN 1
    ELSE BytesCompare(Tail(x), Tail(y))

(***************************************************************************)
(* Staker and its ordering.                                                *)
(***************************************************************************)
\* A Staker record whose sort key is (nextTime, priority, txID), one that
\* restakes (NextTime = StartTime + StakingPeriod, and EndTime a whole number of
\* periods after NextTime).  Instants count from an arbitrary origin.  Records
\* 2w and 2w+1 differ in EndTime alone, as a staker and its copy marked for
\* removal do; records of different w differ in every other field.
Staker(txID, nextTime, priority, v) ==
    LET w == v \div 2 IN
    [ TxID            |-> txID,
      NodeID          |-> IDBytes(NodeIDLen, 0, w),
      PublicKey       |-> w,
      SubnetID        |-> IDBytes(IDLen, 0, w),
      Weight          |-> w + 1,
      StartTime       |-> nextTime - (w + 1),
      StakingPeriod   |-> w + 1,
      EndTime         |-> nextTime + (v % 2) * (w + 1),
      PotentialReward |-> w,
      NextTime        |-> nextTime,
      Priority        |-> priority ]

LessIgnoringTxID(s, than) ==
    \/ s.NextTime < than.NextTime
    \/ s.NextTime = than.NextTime /\ s.Priority < than.Priority

LessPriorityFirst(s, than) ==
    IF s.Priority < than.Priority THEN TRUE
    ELSE IF than.Priority < s.Priority THEN FALSE
    ELSE IF s.NextTime < than.NextTime THEN TRUE
    ELSE IF than.NextTime < s.NextTime THEN FALSE
    ELSE BytesCompare(s.TxID, than.TxID) = -1

LessOrEqualTxID(s, than) ==
    IF s.NextTime < than.NextTime THEN TRUE
    ELSE IF than.NextTime < s.NextTime THEN FALSE
    ELSE IF s.Priority < than.Priority THEN TRUE
    ELSE IF than.Priority < s.Priority THEN FALSE
    ELSE BytesCompare(s.TxID, than.TxID) # 1

\* (s *Staker) Less(than *Staker)
Less(s, than) ==
    IF s.NextTime < than.NextTime THEN TRUE
    ELSE IF than.NextTime < s.NextTime THEN FALSE
    ELSE IF s.Priority < than.Priority THEN TRUE
    ELSE IF than.Priority < s.Priority THEN FALSE
    ELSE BytesCompare(s.TxID, than.TxID) = -1

(***************************************************************************)
(* uint64 and encoding/binary.                                             *)
(***************************************************************************)
LimbBase == 256 * 256

\* The uint64 with the limbs w3 w2 w1 w0, most significant first.
U64(w3, w2, w1, w0) == <<w3, w2, w1, w0>>

Zero64 == U64(0, 0, 0, 0)
MaxUint64 == U64(LimbBase - 1, LimbBase - 1, LimbBase - 1, LimbBase - 1)

\* x < y on uint64.
U64Less(x, y) ==
    \E i \in 1..4 : x[i] < y[i] /\ \A j \in 1..(i - 1) : x[j] = y[j]

\* The sampled uint64 values: the small ones, the ones around a byte and a
\* limb boundary, the top bit alone and the largest.
SampleU64 ==
    { U64(0, 0, 0, n) : n \in 0..MaxSmallU64 }
        \cup { U64(0, 0, 0, 255), U64(0, 0, 0, 256), U64(0, 0, 0, LimbBase - 1),
               U64(0, 0, 1, 0), U64(LimbBase \div 2, 0, 0, 0), MaxUint64 }

\* ^x on uint64.
Not64(x) == [i \in 1..4 |-> (LimbBase - 1) - x[i]]

\* binary.BigEndian.PutUint64: the 8 bytes of x, most significant first.
PutUint64(x) ==
    [i \in 1..8 |-> IF i % 2 = 1 THEN x[(i + 1) \div 2] \div 256
                                 ELSE x[i \div 2] % 256]

\* binary.BigEndian.Uint64: the uint64 held in the first 8 bytes of b.
Uint64(b) == [i \in 1..4 |-> b[2 * i - 1] * 256 + b[2 * i]]

\* make([]byte, n)
MakeBytes(n) == [i \in 1..n |-> 0]

\* copy(dst[off:], src): dst with the bytes of src written from offset off on,
\* as many as fit.
CopyAt(dst, off, src) ==
    [i \in 1..Len(dst) |->
        IF i > off /\ i - off <= Len(src) THEN src[i - off] ELSE dst[i]]

\* b[off:]
SliceFrom(b, off) == SubSeq(b, off + 1, Len(b))

(***************************************************************************)
(* The diff key and weight diff codec.                                     *)
(***************************************************************************)
\* database.Uint64Size, database.BoolSize, database.BoolTrue
Uint64Size == 8
BoolSize == 1
BoolTrue == 1

startDiffKeyLength == IDLen + Uint64Size
diffKeyNodeIDOffset == IDLen + Uint64Size
weightValueLength == BoolSize + Uint64Size

\* ids.EmptyNodeID and ids.NodeIDFromBytes: a node ID holds the bytes it is
\* made from.
EmptyNodeID == <<>>
NodeIDFromBytes(b) == b

packHeightUnflipped(key, off, height) == CopyAt(key, off, PutUint64(height))

\* packIterableHeight(key[off:], height)
packIterableHeight(key, off, height) == CopyAt(key, off, PutUint64(Not64(height)))

unpackHeightUnflipped(key) == Uint64(key)

\* unpackIterableHeight(key)
unpackIterableHeight(key) == Not64(Uint64(key))

marshalStartDiffKeyNoHeight(subnetID, height) ==
    CopyAt(MakeBytes(startDiffKeyLength), 0, subnetID)

\* marshalStartDiffKey(subnetID, height)
marshalStartDiffKey(subnetID, height) ==
    LET key == CopyAt(MakeBytes(startDiffKeyLength), 0, subnetID) IN
    packIterableHeight(key, IDLen, height)

marshalDiffKeyNodeIDFirst(subnetID, height, nodeID) ==
    LET key0 == MakeBytes(startDiffKeyLength + Len(nodeID))
        key1 == CopyAt(key0, 0, nodeID)
        key2 == CopyAt(key1, Len(nodeID), subnetID)
    IN  packIterableHeight(key2, Len(nodeID) + IDLen, height)

\* marshalDiffKey(subnetID, height, nodeID)
marshalDiffKey(subnetID, height, nodeID) ==
    LET key0 == MakeBytes(startDiffKeyLength + Len(nodeID))
        key1 == CopyAt(key0, 0, subnetID)
        key2 == packIterableHeight(key1, IDLen, height)
    IN  CopyAt(key2, diffKeyNodeIDOffset, nodeID)

DiffKeyResult(subnetID, height, nodeID, err) ==
    [ subnetID |-> subnetID, height |-> height, nodeID |-> nodeID, err |-> err ]

unmarshalDiffKeyExactLength(key) ==
    IF Len(key) # startDiffKeyLength + NodeIDLen
    THEN DiffKeyResult(EmptyID, Zero64, EmptyNodeID, "errUnexpectedZeroLenghtNodeID")
    ELSE DiffKeyResult(CopyAt(MakeBytes(IDLen), 0, key),
                       unpackIterableHeight(SliceFrom(key, IDLen)),
                       NodeIDFromBytes(SliceFrom(key, diffKeyNodeIDOffset)),
                       "nil")

\* unmarshalDiffKey(key)
unmarshalDiffKey(key) ==
    IF Len(key) < startDiffKeyLength
    THEN DiffKeyResult(EmptyID, Zero64, EmptyNodeID, "errUnexpectedZeroLenghtNodeID")
    ELSE DiffKeyResult(CopyAt(MakeBytes(IDLen), 0, key),
                       unpackIterableHeight(SliceFrom(key, IDLen)),
                       NodeIDFromBytes(SliceFrom(key, diffKeyNodeIDOffset)),
                       "nil")

\* A ValidatorWeightDiff.
ValidatorWeightDiff(decrease, amount) == [ Decrease |-> decrease, Amount |-> amount ]

marshalWeightDiffFlagLast(diff) ==
    LET value == CopyAt(MakeBytes(weightValueLength), 0, PutUint64(diff.Amount)) IN
    IF diff.Decrease THEN [value EXCEPT ![weightValueLength] = BoolTrue] ELSE value

\* marshalWeightDiff(diff)
marshalWeightDiff(diff) ==
    LET value0 == MakeBytes(weightValueLength)
        value1 == IF diff.Decrease THEN [value0 EXCEPT ![1] = BoolTrue] ELSE value0
    IN  CopyAt(value1, BoolSize, PutUint64(diff.Amount))

\* What unmarshalWeightDiff returns: a nil pointer or a diff, and an error.
WeightDiffResult(isNil, decrease, amount, err) ==
    [ isNil |-> isNil, Decrease |-> decrease, Amount |-> amount, err |-> err ]

unmarshalWeightDiffAmountAtZero(value) ==
    IF Len(value) # weightValueLength
    THEN WeightDiffResult(TRUE, FALSE, Zero64, "errUnexpectedWeightValueLength")
    ELSE WeightDiffResult(FALSE, value[1] = BoolTrue, Uint64(value), "nil")

unmarshalWeightDiffFlagInverted(value) ==
    IF Len(value) # weightValueLength
    THEN WeightDiffResult(TRUE, FALSE, Zero64, "errUnexpectedWeightValueLength")
    ELSE WeightDiffResult(FALSE, value[1] # BoolTrue,
                          Uint64(SliceFrom(value, BoolSize)), "nil")

unmarshalWeightDiffTooShortOnly(value) ==
    IF Len(value) < weightValueLength
    THEN WeightDiffResult(TRUE, FALSE, Zero64, "errUnexpectedWeightValueLength")
    ELSE WeightDiffResult(FALSE, value[1] = BoolTrue,
                          Uint64(SliceFrom(value, BoolSize)), "nil")

\* unmarshalWeightDiff(value)
unmarshalWeightDiff(value) ==
    IF Len(value) # weightValueLength
    THEN WeightDiffResult(TRUE, FALSE, Zero64, "errUnexpectedWeightValueLength")
    ELSE WeightDiffResult(FALSE, value[1] = BoolTrue,
                          Uint64(SliceFrom(value, BoolSize)), "nil")


(***************************************************************************)
(* Staker lifecycle (part_005).  A time.Time is a number of seconds, and   *)
(* so is a time.Duration.                                                  *)
(***************************************************************************)
\* mockable.MaxTime, the time no time.Time is after.
MaxTime == 1000000

\* time.Time.Add, which saturates at the greatest time.
TimeAdd(t, d) == IF t + d > MaxTime THEN MaxTime ELSE t + d

\* time.Time.Sub.
TimeSub(t, u) == t - u

\* constants.PrimaryNetworkID.
PrimaryNetworkID == EmptyID

\* txs.Priority: the current priorities come before the pending ones.
SubnetPermissionlessDelegatorCurrentPriority == 1
SubnetPermissionlessValidatorCurrentPriority == 2
SubnetPermissionedValidatorCurrentPriority == 3
PrimaryNetworkDelegatorCurrentPriority == 4
PrimaryNetworkValidatorCurrentPriority == 5
PrimaryNetworkDelegatorApricotPendingPriority == 6
PrimaryNetworkValidatorPendingPriority == 7
PrimaryNetworkDelegatorBanffPendingPriority == 8
SubnetPermissionlessValidatorPendingPriority == 9
SubnetPermissionlessDelegatorPendingPriority == 10
SubnetPermissionedValidatorPendingPriority == 11

IsPending(p) ==
    p \in { PrimaryNetworkDelegatorApricotPendingPriority,
            PrimaryNetworkValidatorPendingPriority,
            PrimaryNetworkDelegatorBanffPendingPriority,
            SubnetPermissionlessValidatorPendingPriority,
            SubnetPermissionlessDelegatorPendingPriority,
            SubnetPermissionedValidatorPendingPriority }

IsValidator(p) ==
    p \in { SubnetPermissionlessValidatorCurrentPriority,
            SubnetPermissionedValidatorCurrentPriority,
            PrimaryNetworkValidatorCurrentPriority,
            PrimaryNetworkValidatorPendingPriority,
            SubnetPermissionlessValidatorPendingPriority,
            SubnetPermissionedValidatorPendingPriority }

\* What a staking transaction answers: txs.Staker and, with StartTime and
\* EndTime, txs.PreContinuousStakingStaker.  PublicKeyErr is the error of
\* PublicKey(), "nil" for none.
TxStaker(subnetID, nodeID, publicKey, publicKeyErr, weight, stakingPeriod, startTime, endTime, currentPriority, pendingPriority) ==
    [ SubnetID        |-> subnetID,
      NodeID          |-> nodeID,
      PublicKey       |-> publicKey,
      PublicKeyErr    |-> publicKeyErr,
      Weight          |-> weight,
      StakingPeriod   |-> stakingPeriod,
      StartTime       |-> startTime,
      EndTime         |-> endTime,
      CurrentPriority |-> currentPriority,
      PendingPriority |-> pendingPriority ]

\* A nil *Staker.
NilStaker == [ nil |-> TRUE ]

\* What a constructor returns: (*Staker, error).
StakerResult(staker, err) == [ staker |-> staker, err |-> err ]

NewCurrentStakerNextAtStart(txID, staker, startTime, potentialReward) ==
    IF staker.PublicKeyErr # "nil"
    THEN StakerResult(NilStaker, staker.PublicKeyErr)
    ELSE StakerResult(
           [ TxID            |-> txID,
             NodeID          |-> staker.NodeID,
             PublicKey       |-> staker.PublicKey,
             SubnetID        |-> staker.SubnetID,
             Weight          |-> staker.Weight,
             StartTime       |-> startTime,
             StakingPeriod   |-> staker.StakingPeriod,
             EndTime         |-> MaxTime,
             PotentialReward |-> potentialReward,
             NextTime        |-> startTime,
             Priority        |-> staker.CurrentPriority ], "nil")

NewCurrentStaker(txID, staker, startTime, potentialReward) ==
    IF staker.PublicKeyErr # "nil"
    THEN StakerResult(NilStaker, staker.PublicKeyErr)
    ELSE LET stakingPeriod == staker.StakingPeriod IN
         StakerResult(
           [ TxID            |-> txID,
             NodeID          |-> staker.NodeID,
             PublicKey       |-> staker.PublicKey,
             SubnetID        |-> staker.SubnetID,
             Weight          |-> staker.Weight,
             StartTime       |-> startTime,
             StakingPeriod   |-> stakingPeriod,
             EndTime         |-> MaxTime,
             PotentialReward |-> potentialReward,
             NextTime        |-> TimeAdd(startTime, stakingPeriod),
             Priority        |-> staker.CurrentPriority ], "nil")

NewPendingStakerIgnoringKeyError(txID, staker) ==
    StakerResult(
      [ TxID            |-> txID,
        NodeID          |-> staker.NodeID,
        PublicKey       |-> staker.PublicKey,
        SubnetID        |-> staker.SubnetID,
        Weight          |-> staker.Weight,
        StartTime       |-> staker.StartTime,
        StakingPeriod   |-> TimeSub(staker.EndTime, staker.StartTime),
        EndTime         |-> staker.EndTime,
        PotentialReward |-> 0,
        NextTime        |-> staker.StartTime,
        Priority        |-> staker.PendingPriority ], staker.PublicKeyErr)

NewPendingStakerTxPeriod(txID, staker) ==
    IF staker.PublicKeyErr # "nil"
    THEN StakerResult(NilStaker, staker.PublicKeyErr)
    ELSE StakerResult(
           [ TxID            |-> txID,
             NodeID          |-> staker.NodeID,
             PublicKey       |-> staker.PublicKey,
             SubnetID        |-> staker.SubnetID,
             Weight          |-> staker.Weight,
             StartTime       |-> staker.StartTime,
             StakingPeriod   |-> staker.StakingPeriod,
             EndTime         |-> staker.EndTime,
             PotentialReward |-> 0,
             NextTime        |-> staker.StartTime,
             Priority        |-> staker.PendingPriority ], "nil")

NewPendingStaker(txID, staker) ==
    IF staker.PublicKeyErr # "nil"
    THEN StakerResult(NilStaker, staker.PublicKeyErr)
    ELSE LET startTime == staker.StartTime
             duration == TimeSub(staker.EndTime, startTime)
         IN  StakerResult(
               [ TxID            |-> txID,
                 NodeID          |-> staker.NodeID,
                 PublicKey       |-> staker.PublicKey,
                 SubnetID        |-> staker.SubnetID,
                 Weight          |-> staker.Weight,
                 StartTime       |-> startTime,
                 StakingPeriod   |-> duration,
                 EndTime         |-> staker.EndTime,
                 PotentialReward |-> 0,
                 NextTime        |-> startTime,
                 Priority        |-> staker.PendingPriority ], "nil")

ShiftWithEndTime(s) ==
    IF IsPending(s.Priority) THEN s
    ELSE IF s.NextTime = s.EndTime THEN s
    ELSE [s EXCEPT !.StartTime = TimeAdd(s.StartTime, s.StakingPeriod),
                   !.NextTime = TimeAdd(s.NextTime, s.StakingPeriod),
                   !.EndTime = TimeAdd(s.EndTime, s.StakingPeriod)]

ShiftPastEndOfLife(s) ==
    IF IsPending(s.Priority) THEN s
    ELSE [s EXCEPT !.StartTime = TimeAdd(s.StartTime, s.StakingPeriod),
                   !.NextTime = TimeAdd(s.NextTime, s.StakingPeriod)]

ShiftStartTimeOnly(s) ==
    IF IsPending(s.Priority) THEN s
    ELSE IF s.NextTime = s.EndTime THEN s
    ELSE [s EXCEPT !.StartTime = TimeAdd(s.StartTime, s.StakingPeriod)]

ShiftNextTimeOnly(s) ==
    IF IsPending(s.Priority) THEN s
    ELSE IF s.NextTime = s.EndTime THEN s
    ELSE [s EXCEPT !.NextTime = TimeAdd(s.NextTime, s.StakingPeriod)]

\* The staker that ShiftStakerAheadInPlace leaves in place of s.
ShiftStakerAheadInPlace(s) ==
    IF IsPending(s.Priority) THEN s
    ELSE IF s.NextTime = s.EndTime THEN s
    ELSE [s EXCEPT !.StartTime = TimeAdd(s.StartTime, s.StakingPeriod),
                   !.NextTime = TimeAdd(s.NextTime, s.StakingPeriod)]

EarliestStopTimeAnyValidator(s) ==
    LET candidateStopTime ==
            IF IsValidator(s.Priority)
            THEN TimeAdd(s.NextTime, s.StakingPeriod)
            ELSE s.NextTime
    IN  IF candidateStopTime < s.EndTime THEN candidateStopTime ELSE s.EndTime

EarliestStopTime(s) ==
    LET candidateStopTime ==
            IF IsValidator(s.Priority) /\ s.SubnetID = PrimaryNetworkID
            THEN TimeAdd(s.NextTime, s.StakingPeriod)
            ELSE s.NextTime
    IN  IF candidateStopTime < s.EndTime THEN candidateStopTime ELSE s.EndTime

\* MarkStakerForRemovalInPlaceBeforeTime, piece by piece: whether it does
\* anything, and whether its loop goes round once more.
MarkAppliesAlways(s, stopTime) == TRUE

MarkApplies(s, stopTime) == stopTime < s.EndTime

MarkLoopNotAfter(end, stopTime) == end <= stopTime

MarkLoopContinues(end, stopTime) == end < stopTime

(***************************************************************************)
(* StakerIterator (part_005:21-34) is an interface; the iterators behind   *)
(* it are not in these sources and one is modelled from the specification  *)
(* (section 4.4): a cursor into a sequence of stakers.                     *)
(***************************************************************************)
\* What Next() leaves: the cursor, and what it returned.
IterStep(cur, ok) == [ cur |-> cur, ok |-> ok ]

IterNextPastEnd(src, cur) == IterStep(cur + 1, cur < Len(src))

\* Next() on the cursor that has passed cur stakers of src.
IterNext(src, cur) ==
    IF cur < Len(src) THEN IterStep(cur + 1, TRUE) ELSE IterStep(cur, FALSE)

\* Value() after a Next() that returned true.
IterValue(src, cur) == src[cur]

(***************************************************************************)
(* beaconManager (node/beacon_manager.go).                                 *)
(***************************************************************************)
OnceDoAlways(done) == TRUE

\* sync.Once.Do: whether the function is run, given whether one has been.
OnceDo(done) == ~done

(***************************************************************************)
(* The weight diffs as an undo log (spec section 4.3).  The code that      *)
(* writes the diffs of a block and that rebuilds a past weight from them   *)
(* is the executor's; it is modelled from the specification, on top of the *)
(* codec above.  Weights are small here and converted to uint64.           *)
(***************************************************************************)
U64FromNat(n) == U64(0, 0, n \div LimbBase, n % LimbBase)

NatOfU64(x) == x[3] * LimbBase + x[4]

\* A stored diff: a key of the store and its value.
DiffEntry(subnetID, height, nodeID, d) ==
    [ key   |-> marshalDiffKey(subnetID, U64FromNat(height), nodeID),
      value |-> marshalWeightDiff(d) ]

\* The diff that records the change of a weight by delta.
DiffOfDelta(delta) ==
    IF delta < 0 THEN ValidatorWeightDiff(TRUE, U64FromNat(-delta))
                 ELSE ValidatorWeightDiff(FALSE, U64FromNat(delta))

\* A diff undone: an increase is subtracted, a decrease is added back.
applyWeightDiff(weight, d) ==
    IF d.Decrease THEN weight + NatOfU64(d.Amount) ELSE weight - NatOfU64(d.Amount)

\* The entry of the least key: the one an ascending iteration meets first.
FirstEntry(entries) ==
    CHOOSE e \in entries : \A f \in entries \ {e} : BytesCompare(f.key, e.key) = 1

\* The ascending iteration over the entries: the diffs of nodeID are undone, one
\* after the other, until a key of a height that is not above the target.
RECURSIVE UndoDiffs(_, _, _, _)
UndoDiffs(entries, nodeID, weight, target) ==
    IF entries = {} THEN weight
    ELSE LET e == FirstEntry(entries)
             k == unmarshalDiffKey(e.key)
         IN  IF ~U64Less(U64FromNat(target), k.height) THEN weight
             ELSE IF k.nodeID # nodeID
                  THEN UndoDiffs(entries \ {e}, nodeID, weight, target)
                  ELSE UndoDiffs(entries \ {e}, nodeID,
                                 applyWeightDiff(weight, unmarshalWeightDiff(e.value)),
                                 target)

\* The weight of nodeID in subnetID after block target, rebuilt from its weight
\* after block latest: the iteration starts at the start key of the latest
\* height and stays within the subnet.
ReconstructWeight(db, subnetID, nodeID, weight, latest, target) ==
    LET start == marshalStartDiffKey(subnetID, U64FromNat(latest))
        scanned == { e \in db : /\ BytesCompare(e.key, start) # -1
                                /\ SubSeq(e.key, 1, IDLen) = subnetID }
    IN  UndoDiffs(scanned, nodeID, weight, target)


VARIABLES
    sa, sb, sc,   \* three stakers handed to Less
    cmp,          \* the results of Less on them
    opc,          \* "input" before the comparisons, "compared" after
    coord,        \* a diff's coordinate: subnetID, height, nodeID
    key,          \* marshalDiffKey of coord
    coord2,       \* a second diff's coordinate
    key2,         \* marshalDiffKey of coord2
    startKey,     \* marshalStartDiffKey of coord2's subnetID and height
    buf,          \* the bytes handed to unmarshalDiffKey
    out,          \* what unmarshalDiffKey returned
    kpc,          \* how far the key operations have come
    diff,         \* a ValidatorWeightDiff
    value,        \* marshalWeightDiff of diff
    vbuf,         \* the bytes handed to unmarshalWeightDiff
    vout,         \* what unmarshalWeightDiff returned
    wpc,          \* how far the value operations have come
    hweight,      \* the weight of the staker after the latest block
    hheight,      \* the height of the latest block
    hlog,         \* the weight after each block, from block 0 on
    hdb,          \* the stored diffs
    htarget,      \* the height a weight is rebuilt for
    hrecon,       \* the weight rebuilt
    hpc,          \* "history" while blocks are accepted, then "reconstructed"
    ltx,          \* the staking transaction a staker is built from
    lstart,       \* the startTime argument of NewCurrentStaker
    lreward,      \* the potentialReward argument of NewCurrentStaker
    stk,          \* the staker, NilStaker when there is none
    lerr,         \* the error the constructor returned
    lop,          \* the operation applied last
    lprev,        \* the staker before that operation
    lstop,        \* the stopTime argument of the last mark for removal
    lagain,       \* whether that mark repeated the stopTime of a mark just before
    mend,         \* the local variable end of the mark for removal under way
    mround,       \* whether its loop has gone round an odd number of times
    est,          \* the result of the last EarliestStopTime
    nshift,       \* how many times the staker has been moved ahead
    lpc,          \* "tx", then "live" or "failed"; "marking" inside the loop
    isrc,         \* the stakers an iterator runs over, in their order
    icur,         \* how many of them the iterator has passed
    iok,          \* what the last Next() returned, "none" before the first
    ival,         \* what the last Value() returned
    iseen,        \* the stakers the consumer has been given
    ilast,        \* the method called last
    ipc,          \* "open" until Release(), then "released"
    requiredConns,               \* beaconManager.requiredConns
    numConns,                    \* beaconManager.numConns
    onSufficientlyConnected,     \* how many times the channel has been closed
    onceOnSufficientlyConnected, \* whether the sync.Once has run its function
    bcall,        \* the call each goroutine is in
    bret,         \* what atomic.AddInt64 returned to each goroutine
    closedBy,     \* the calls that closed the channel, with what their add returned
    ncalls,       \* how many calls have been made
    bpc           \* where each goroutine is in its call

orderVars == <<sa, sb, sc, cmp, opc>>
keyVars == <<coord, key, coord2, key2, startKey, buf, out, kpc>>
valueVars == <<diff, value, vbuf, vout, wpc>>
historyVars == <<hweight, hheight, hlog, hdb, htarget, hrecon, hpc>>

lifeVars == <<ltx, lstart, lreward, stk, lerr, lop, lprev, lstop, lagain, mend, mround, est, nshift, lpc>>

iterVars == <<isrc, icur, iok, ival, iseen, ilast, ipc>>

beaconVars == <<requiredConns, numConns, onSufficientlyConnected,
                onceOnSufficientlyConnected, bcall, bret, closedBy, ncalls, bpc>>

vars == <<orderVars, keyVars, valueVars, historyVars, lifeVars, iterVars, beaconVars>>

Coordinate(subnetID, height, nodeID) ==
    [ subnetID |-> subnetID, height |-> height, nodeID |-> nodeID ]

SampleCoordinates ==
    { Coordinate(s, h, n) : s \in SampleIDs, h \in SampleU64, n \in SampleNodeIDs }

NoComparison ==
    [ aa |-> FALSE, ab |-> FALSE, ba |-> FALSE, bc |-> FALSE, ac |-> FALSE ]

NoDiffKeyResult == DiffKeyResult(EmptyID, Zero64, EmptyNodeID, "not called")

NoWeightDiffResult == WeightDiffResult(TRUE, FALSE, Zero64, "not called")

\* The stakers, the keys and the values when a specification leaves them alone.
OrderIdle ==
    /\ sa = Staker(EmptyID, 0, 1, 0)
    /\ sb = Staker(EmptyID, 0, 1, 0)
    /\ sc = Staker(EmptyID, 0, 1, 0)
    /\ cmp = NoComparison
    /\ opc = "idle"

KeyIdle ==
    /\ coord = Coordinate(EmptyID, Zero64, MakeBytes(NodeIDLen))
    /\ coord2 = Coordinate(EmptyID, Zero64, MakeBytes(NodeIDLen))
    /\ key = <<>>
    /\ key2 = <<>>
    /\ startKey = <<>>
    /\ buf = <<>>
    /\ out = NoDiffKeyResult
    /\ kpc = "idle"

ValueIdle ==
    /\ diff = ValidatorWeightDiff(FALSE, Zero64)
    /\ value = <<>>
    /\ vbuf = <<>>
    /\ vout = NoWeightDiffResult
    /\ wpc = "idle"

HistoryIdle ==
    /\ hweight = 0
    /\ hheight = 0
    /\ hlog = <<>>
    /\ hdb = {}
    /\ htarget = 0
    /\ hrecon = 0
    /\ hpc = "idle"

LifeIdle ==
    /\ ltx = NilStaker
    /\ lstart = 0
    /\ lreward = 0
    /\ stk = NilStaker
    /\ lerr = "nil"
    /\ lop = "none"
    /\ lprev = NilStaker
    /\ lstop = 0
    /\ lagain = FALSE
    /\ mend = 0
    /\ mround = FALSE
    /\ est = 0
    /\ nshift = 0
    /\ lpc = "idle"

BeaconIdle ==
    /\ requiredConns = 0
    /\ numConns = 0
    /\ onSufficientlyConnected = 0
    /\ onceOnSufficientlyConnected = FALSE
    /\ bcall = <<>>
    /\ bret = <<>>
    /\ closedBy = {}
    /\ ncalls = 0
    /\ bpc = <<>>

IterIdle ==
    /\ isrc = <<>>
    /\ icur = 0
    /\ iok = "none"
    /\ ival = NilStaker
    /\ iseen = <<>>
    /\ ilast = "none"
    /\ ipc = "idle"

SortKeys ==
    { <<id, t, p>> : id \in SampleIDs, t \in 0..MaxNextTime, p \in 1..MaxPriority }

OrderInit ==
    /\ sa \in { Staker(k[1], k[2], k[3], v) : k \in SortKeys, v \in 0..MaxVariant }
    /\ sb \in { Staker(k[1], k[2], k[3], 0) : k \in SortKeys }
    /\ sc \in { Staker(k[1], k[2], k[3], 0) : k \in SortKeys }
    /\ cmp = NoComparison
    /\ opc = "input"
    /\ KeyIdle
    /\ ValueIdle
    /\ HistoryIdle
    /\ LifeIdle
    /\ IterIdle
    /\ BeaconIdle

\* The calls of Less a sorted container makes on three of its elements.
CompareStakers ==
    /\ opc = "input"
    /\ cmp' = [ aa |-> Less(sa, sa),
                ab |-> Less(sa, sb),
                ba |-> Less(sb, sa),
                bc |-> Less(sb, sc),
                ac |-> Less(sa, sc) ]
    /\ opc' = "compared"
    /\ UNCHANGED <<sa, sb, sc, keyVars, valueVars, historyVars, lifeVars, iterVars, beaconVars>>

OrderNext == CompareStakers

SpecOrder == OrderInit /\ [][OrderNext]_vars

(***************************************************************************)
(* One diff key: marshalled, possibly damaged, and unmarshalled.           *)
(***************************************************************************)
\* The byte appended to a key or a value that is too long.
PadByte == 171

Pad(n) == [i \in 1..n |-> PadByte]

\* What can reach a decoder in place of the encoded bytes b: b without up to
\* MaxDrop leading bytes and without any number of trailing bytes, or b without
\* up to MaxDrop leading bytes and with up to MaxPad bytes appended.
Damaged(b) ==
    { SubSeq(b, 1 + d, n) : d \in 0..MaxDrop, n \in 0..Len(b) } \cup
    { SubSeq(b, 1 + d, Len(b)) \o Pad(e) : d \in 0..MaxDrop, e \in 1..MaxPad }

KeyInit ==
    /\ OrderIdle
    /\ ValueIdle
    /\ HistoryIdle
    /\ LifeIdle
    /\ IterIdle
    /\ BeaconIdle
    /\ coord \in SampleCoordinates
    /\ coord2 = Coordinate(EmptyID, Zero64, MakeBytes(NodeIDLen))
    /\ key = <<>>
    /\ key2 = <<>>
    /\ startKey = <<>>
    /\ buf = <<>>
    /\ out = NoDiffKeyResult
    /\ kpc = "input"

MarshalDiffKey ==
    /\ kpc = "input"
    /\ key' = marshalDiffKey(coord.subnetID, coord.height, coord.nodeID)
    /\ buf' = key'
    /\ kpc' = "marshalled"
    /\ UNCHANGED <<coord, coord2, key2, startKey, out, orderVars, valueVars, historyVars, lifeVars, iterVars, beaconVars>>

\* The stored key is damaged before it is read back.
DamageKey ==
    /\ kpc = "marshalled"
    /\ \E b \in Damaged(key) \ {key} : buf' = b
    /\ kpc' = "damaged"
    /\ UNCHANGED <<coord, key, coord2, key2, startKey, out, orderVars, valueVars, historyVars, lifeVars, iterVars, beaconVars>>

UnmarshalDiffKey ==
    /\ kpc \in {"marshalled", "damaged"}
    /\ out' = unmarshalDiffKey(buf)
    /\ kpc' = "unmarshalled"
    /\ UNCHANGED <<coord, key, coord2, key2, startKey, buf, orderVars, valueVars, historyVars, lifeVars, iterVars, beaconVars>>

KeyNext == MarshalDiffKey \/ DamageKey \/ UnmarshalDiffKey

SpecKey == KeyInit /\ [][KeyNext]_vars

(***************************************************************************)
(* Two diff keys and a start key, as an iteration over the diffs compares  *)
(* them.                                                                   *)
(***************************************************************************)
KeysInit ==
    /\ OrderIdle
    /\ ValueIdle
    /\ HistoryIdle
    /\ LifeIdle
    /\ IterIdle
    /\ BeaconIdle
    /\ coord \in SampleCoordinates
    /\ coord2 \in SampleCoordinates
    /\ key = <<>>
    /\ key2 = <<>>
    /\ startKey = <<>>
    /\ buf = <<>>
    /\ out = NoDiffKeyResult
    /\ kpc = "inputs"

MarshalFirstKey ==
    /\ kpc = "inputs"
    /\ key' = marshalDiffKey(coord.subnetID, coord.height, coord.nodeID)
    /\ kpc' = "first"
    /\ UNCHANGED <<coord, coord2, key2, startKey, buf, out, orderVars, valueVars, historyVars, lifeVars, iterVars, beaconVars>>

MarshalSecondKey ==
    /\ kpc = "first"
    /\ key2' = marshalDiffKey(coord2.subnetID, coord2.height, coord2.nodeID)
    /\ kpc' = "second"
    /\ UNCHANGED <<coord, key, coord2, startKey, buf, out, orderVars, valueVars, historyVars, lifeVars, iterVars, beaconVars>>

MarshalStartKey ==
    /\ kpc = "second"
    /\ startKey' = marshalStartDiffKey(coord2.subnetID, coord2.height)
    /\ kpc' = "keys"
    /\ UNCHANGED <<coord, key, coord2, key2, buf, out, orderVars, valueVars, historyVars, lifeVars, iterVars, beaconVars>>

KeysNext == MarshalFirstKey \/ MarshalSecondKey \/ MarshalStartKey

SpecKeys == KeysInit /\ [][KeysNext]_vars

(***************************************************************************)
(* One weight diff: marshalled, possibly damaged, and unmarshalled.        *)
(***************************************************************************)
ValueInit ==
    /\ OrderIdle
    /\ KeyIdle
    /\ HistoryIdle
    /\ LifeIdle
    /\ IterIdle
    /\ BeaconIdle
    /\ diff \in { ValidatorWeightDiff(d, a) : d \in BOOLEAN, a \in SampleU64 }
    /\ value = <<>>
    /\ vbuf = <<>>
    /\ vout = NoWeightDiffResult
    /\ wpc = "input"

MarshalWeightDiff ==
    /\ wpc = "input"
    /\ value' = marshalWeightDiff(diff)
    /\ vbuf' = value'
    /\ wpc' = "marshalled"
    /\ UNCHANGED <<diff, vout, orderVars, keyVars, historyVars, lifeVars, iterVars, beaconVars>>

\* The stored value is damaged before it is read back.
DamageValue ==
    /\ wpc = "marshalled"
    /\ \E b \in Damaged(value) \ {value} : vbuf' = b
    /\ wpc' = "damaged"
    /\ UNCHANGED <<diff, value, vout, orderVars, keyVars, historyVars, lifeVars, iterVars, beaconVars>>

UnmarshalWeightDiff ==
    /\ wpc \in {"marshalled", "damaged"}
    /\ vout' = unmarshalWeightDiff(vbuf)
    /\ wpc' = "unmarshalled"
    /\ UNCHANGED <<diff, value, vbuf, orderVars, keyVars, historyVars, lifeVars, iterVars, beaconVars>>

ValueNext == MarshalWeightDiff \/ DamageValue \/ UnmarshalWeightDiff

SpecValue == ValueInit /\ [][ValueNext]_vars

(***************************************************************************)
(* A history of the weight of one staker, its diffs stored block by block, *)
(* and a past weight rebuilt from the store.                               *)
(***************************************************************************)
HistorySubnetID == IDBytes(IDLen, 0, 1)
HistoryNodeID == IDBytes(NodeIDLen, 0, 1)
OtherNodeID == IDBytes(NodeIDLen, 255, 255)

\* The weight before block 1, and what a block changes it by.
Baselines == {0, 100}
WeightDeltas == {-20, 0, 50}

HistoryInit ==
    /\ OrderIdle
    /\ KeyIdle
    /\ ValueIdle
    /\ LifeIdle
    /\ IterIdle
    /\ BeaconIdle
    /\ hweight \in Baselines
    /\ hheight = 0
    /\ hlog = <<hweight>>
    /\ hdb = {}
    /\ htarget = 0
    /\ hrecon = 0
    /\ hpc = "history"

\* A block is accepted: the staker's weight changes by delta, and the diff is
\* stored unless it is zero; another node of the subnet gains 1 in every block.
AcceptBlock(delta) ==
    /\ hpc = "history"
    /\ hheight < MaxHistoryHeight
    /\ hweight + delta >= 0
    /\ hheight' = hheight + 1
    /\ hweight' = hweight + delta
    /\ hlog' = Append(hlog, hweight')
    /\ hdb' = hdb
            \cup { DiffEntry(HistorySubnetID, hheight', OtherNodeID, DiffOfDelta(1)) }
            \cup ( IF delta = 0 THEN {}
                   ELSE { DiffEntry(HistorySubnetID, hheight', HistoryNodeID,
                                    DiffOfDelta(delta)) } )
    /\ UNCHANGED <<htarget, hrecon, hpc, orderVars, keyVars, valueVars, lifeVars, iterVars, beaconVars>>

\* The weight after block target is rebuilt from the latest weight.
ReconstructAt(target) ==
    /\ hpc = "history"
    /\ target \in 0..hheight
    /\ htarget' = target
    /\ hrecon' = ReconstructWeight(hdb, HistorySubnetID, HistoryNodeID,
                                   hweight, hheight, target)
    /\ hpc' = "reconstructed"
    /\ UNCHANGED <<hweight, hheight, hlog, hdb, orderVars, keyVars, valueVars, lifeVars, iterVars, beaconVars>>

HistoryNext ==
    \/ \E delta \in WeightDeltas : AcceptBlock(delta)
    \/ \E target \in 0..MaxHistoryHeight : ReconstructAt(target)

SpecHistory == HistoryInit /\ [][HistoryNext]_vars

(***************************************************************************)
(* The life of one staker: built from a staking transaction, then moved    *)
(* ahead, asked for its earliest stop time and marked for removal, in any  *)
(* order.                                                                  *)
(***************************************************************************)
LifeTxID == IDBytes(IDLen, 7, 9)
LifeNodeID == IDBytes(NodeIDLen, 3, 4)
LifeSubnetID == IDBytes(IDLen, 0, 1)

\* The sampled staking periods, the lengths EndTime - StartTime of the
\* transactions' own time spans, and the chain times of acceptance.
Periods == {0, 100, 1000}
Durations == {0, 500}
ChainTimes == {0, 60}

\* The sampled arguments potentialReward and stopTime.
PotentialRewards == {0, 77}
StopTimes == {0, 100, 350, 540, 1500, 10100}

\* The sampled transactions: a validator and a delegator of the primary network
\* and of another subnet, whose PublicKey() succeeds or fails.
SampleTxs ==
    { TxStaker(k[1], LifeNodeID, IF e = "nil" THEN k[2] ELSE "nil", e, k[3], p,
               40, 40 + d, k[4], k[5]) :
        k \in { <<PrimaryNetworkID, "blsKey", 2000,
                  PrimaryNetworkValidatorCurrentPriority,
                  PrimaryNetworkValidatorPendingPriority>>,
                <<PrimaryNetworkID, "nil", 25,
                  PrimaryNetworkDelegatorCurrentPriority,
                  PrimaryNetworkDelegatorBanffPendingPriority>>,
                <<LifeSubnetID, "nil", 300,
                  SubnetPermissionedValidatorCurrentPriority,
                  SubnetPermissionedValidatorPendingPriority>>,
                <<LifeSubnetID, "nil", 10,
                  SubnetPermissionlessDelegatorCurrentPriority,
                  SubnetPermissionlessDelegatorPendingPriority>> },
        e \in {"nil", "errPublicKey"},
        p \in Periods,
        d \in Durations }

LifeInit ==
    /\ OrderIdle
    /\ KeyIdle
    /\ ValueIdle
    /\ HistoryIdle
    /\ IterIdle
    /\ BeaconIdle
    /\ ltx \in SampleTxs
    /\ lstart \in ChainTimes
    /\ lreward = 0
    /\ stk = NilStaker
    /\ lerr = "nil"
    /\ lop = "none"
    /\ lprev = NilStaker
    /\ lstop = 0
    /\ lagain = FALSE
    /\ mend = 0
    /\ mround = FALSE
    /\ est = 0
    /\ nshift = 0
    /\ lpc = "tx"

\* What a constructor's result leaves behind.
Constructed(r, op, potentialReward) ==
    /\ lreward' = potentialReward
    /\ stk' = r.staker
    /\ lerr' = r.err
    /\ lop' = op
    /\ lpc' = IF r.err = "nil" THEN "live" ELSE "failed"
    /\ lagain' = FALSE
    /\ UNCHANGED <<ltx, lstart, lprev, lstop, mend, mround, est, nshift,
                   orderVars, keyVars, valueVars, historyVars, iterVars, beaconVars>>

CreateCurrentStaker(potentialReward) ==
    /\ lpc = "tx"
    /\ Constructed(NewCurrentStaker(LifeTxID, ltx, lstart, potentialReward),
                   "NewCurrentStaker", potentialReward)

CreatePendingStaker ==
    /\ lpc = "tx"
    /\ Constructed(NewPendingStaker(LifeTxID, ltx), "NewPendingStaker", 0)

ShiftStakerAhead ==
    /\ lpc = "live"
    /\ LET shifted == ShiftStakerAheadInPlace(stk) IN
       /\ shifted # stk => nshift < MaxShifts
       /\ stk' = shifted
       /\ nshift' = IF shifted # stk THEN nshift + 1 ELSE nshift
    /\ lprev' = stk
    /\ lop' = "ShiftStakerAheadInPlace"
    /\ lagain' = FALSE
    /\ UNCHANGED <<ltx, lstart, lreward, lerr, lstop, mend, mround, est, lpc,
                   orderVars, keyVars, valueVars, historyVars, iterVars, beaconVars>>

AskEarliestStopTime ==
    /\ lpc = "live"
    /\ est' = EarliestStopTime(stk)
    /\ lprev' = stk
    /\ lop' = "EarliestStopTime"
    /\ lagain' = FALSE
    /\ UNCHANGED <<ltx, lstart, lreward, stk, lerr, lstop, mend, mround, nshift, lpc,
                   orderVars, keyVars, valueVars, historyVars, iterVars, beaconVars>>

\* MarkStakerForRemovalInPlaceBeforeTime is entered: it returns at once, or its
\* loop starts from NextTime.
MarkBegin(stopTime) ==
    /\ lpc = "live"
    /\ lprev' = stk
    /\ lstop' = stopTime
    /\ lagain' = (lop = "MarkStakerForRemovalInPlaceBeforeTime" /\ lstop = stopTime)
    /\ lop' = "MarkStakerForRemovalInPlaceBeforeTime"
    /\ IF MarkApplies(stk, stopTime)
       THEN mend' = stk.NextTime /\ lpc' = "marking"
       ELSE UNCHANGED <<mend, lpc>>
    /\ mround' = FALSE
    /\ UNCHANGED <<ltx, lstart, lreward, stk, lerr, est, nshift,
                   orderVars, keyVars, valueVars, historyVars, iterVars, beaconVars>>

\* The loop goes round once.
MarkStep ==
    /\ lpc = "marking"
    /\ MarkLoopContinues(mend, lstop)
    /\ mend' = TimeAdd(mend, stk.StakingPeriod)
    /\ mround' = ~mround
    /\ UNCHANGED <<ltx, lstart, lreward, stk, lerr, lop, lprev, lstop, lagain, est, nshift, lpc,
                   orderVars, keyVars, valueVars, historyVars, iterVars, beaconVars>>

\* The loop is left and EndTime is set.
MarkEnd ==
    /\ lpc = "marking"
    /\ ~MarkLoopContinues(mend, lstop)
    /\ stk' = [stk EXCEPT !.EndTime = mend]
    /\ mround' = FALSE
    /\ lpc' = "live"
    /\ UNCHANGED <<ltx, lstart, lreward, lerr, lop, lprev, lstop, lagain, mend, est, nshift,
                   orderVars, keyVars, valueVars, historyVars, iterVars, beaconVars>>

LifeNext ==
    \/ \E potentialReward \in PotentialRewards : CreateCurrentStaker(potentialReward)
    \/ CreatePendingStaker
    \/ ShiftStakerAhead
    \/ AskEarliestStopTime
    \/ \E stopTime \in StopTimes \cup {est} : MarkBegin(stopTime)
    \/ MarkStep
    \/ MarkEnd

SpecLife == LifeInit /\ [][LifeNext]_vars

\* The same, where a call of MarkStakerForRemovalInPlaceBeforeTime that has been
\* entered keeps running: its loop goes round while it can, and it returns when
\* the loop is left.
SpecLifeFair == SpecLife /\ WF_vars(MarkStep) /\ WF_vars(MarkEnd)

\* The same, where moreover the staker is shifted ahead again and again.
SpecLifeRestake == SpecLifeFair /\ SF_vars(ShiftStakerAhead)

(***************************************************************************)
(* An iterator over a set of stakers and its consumer, which calls Next(), *)
(* Value() and Release() as it likes until it has released the iterator.   *)
(***************************************************************************)
\* The stakers iterated over.
IterStakers == { Staker(id, t, 0, 0) : id \in {EmptyID, LifeTxID}, t \in 0..1 }

\* The sets of stakers in the order of Less.
SortedStakers ==
    { q \in UNION { [1..n -> IterStakers] : n \in 0..MaxIterated } :
        \A i \in 1..Len(q) : \A j \in 1..Len(q) : i < j => Less(q[i], q[j]) }

IterInit ==
    /\ OrderIdle
    /\ KeyIdle
    /\ ValueIdle
    /\ HistoryIdle
    /\ LifeIdle
    /\ BeaconIdle
    /\ isrc \in SortedStakers
    /\ icur = 0
    /\ iok = "none"
    /\ ival = NilStaker
    /\ iseen = <<>>
    /\ ilast = "none"
    /\ ipc = "open"

CallNext ==
    /\ ipc = "open"
    /\ LET r == IterNext(isrc, icur) IN
       /\ icur' = r.cur
       /\ iok' = IF r.ok THEN "true" ELSE "false"
       /\ iseen' = IF r.ok THEN Append(iseen, IterValue(isrc, r.cur)) ELSE iseen
    /\ ilast' = "Next"
    /\ UNCHANGED <<isrc, ival, ipc, orderVars, keyVars, valueVars, historyVars, lifeVars, beaconVars>>

\* Value() after a Next() that returned true; after any other call it is not
\* defined and may return any staker or none.
CallValue ==
    /\ ipc = "open"
    /\ IF iok = "true"
       THEN ival' = IterValue(isrc, icur)
       ELSE ival' \in IterStakers \cup {NilStaker}
    /\ ilast' = "Value"
    /\ UNCHANGED <<isrc, icur, iok, iseen, ipc, orderVars, keyVars, valueVars, historyVars, lifeVars, beaconVars>>

CallRelease ==
    /\ ipc = "open"
    /\ ipc' = "released"
    /\ ilast' = "Release"
    /\ UNCHANGED <<isrc, icur, iok, ival, iseen, orderVars, keyVars, valueVars, historyVars, lifeVars, beaconVars>>

IterNextStep == CallNext \/ CallValue \/ CallRelease

SpecIter == IterInit /\ [][IterNextStep]_vars

(***************************************************************************)
(* beaconManager: goroutines call Connected and Disconnected at the same   *)
(* time.  A call is run in the steps at which it touches what is shared:   *)
(* its entry with the lookup of the beacon, the atomic add, the sync.Once, *)
(* and the call of the router behind.                                      *)
(***************************************************************************)
Goroutines == {"g1", "g2"}

\* The nodes that connect, the beacons among them, and the subnets.
BeaconNodes == {"beacon1", "beacon2", "node3"}
Beacons == {"beacon1", "beacon2"}
BeaconSubnets == {"PrimaryNetworkID", "subnet1"}

NoCall == [ op |-> "none", nodeID |-> "none", subnetID |-> "none" ]

BeaconInit ==
    /\ OrderIdle
    /\ KeyIdle
    /\ ValueIdle
    /\ HistoryIdle
    /\ LifeIdle
    /\ IterIdle
    /\ requiredConns \in 1..2
    /\ numConns = 0
    /\ onSufficientlyConnected = 0
    /\ onceOnSufficientlyConnected = FALSE
    /\ bcall = [g \in Goroutines |-> NoCall]
    /\ bret = [g \in Goroutines |-> 0]
    /\ closedBy = {}
    /\ ncalls = 0
    /\ bpc = [g \in Goroutines |-> "idle"]

\* Connected is entered: the node is looked up, and the subnet compared.
ConnectedEnter(g, nodeID, subnetID) ==
    /\ bpc # <<>>
    /\ bpc[g] = "idle"
    /\ ncalls < MaxCalls
    /\ ncalls' = ncalls + 1
    /\ bcall' = [bcall EXCEPT ![g] =
                    [op |-> "Connected", nodeID |-> nodeID, subnetID |-> subnetID]]
    /\ bpc' = [bpc EXCEPT ![g] =
                  IF nodeID \in Beacons /\ "PrimaryNetworkID" = subnetID
                  THEN "add" ELSE "route"]
    /\ UNCHANGED <<requiredConns, numConns, onSufficientlyConnected,
                   onceOnSufficientlyConnected, bret, closedBy,
                   orderVars, keyVars, valueVars, historyVars, lifeVars, iterVars>>

\* atomic.AddInt64(&b.numConns, 1) >= b.requiredConns
ConnectedAdd(g) ==
    /\ bpc # <<>>
    /\ bpc[g] = "add"
    /\ numConns' = numConns + 1
    /\ bret' = [bret EXCEPT ![g] = numConns']
    /\ bpc' = [bpc EXCEPT ![g] = IF numConns' >= requiredConns THEN "once" ELSE "route"]
    /\ UNCHANGED <<requiredConns, onSufficientlyConnected, onceOnSufficientlyConnected,
                   bcall, closedBy, ncalls,
                   orderVars, keyVars, valueVars, historyVars, lifeVars, iterVars>>

\* b.onceOnSufficientlyConnected.Do(func() { close(b.onSufficientlyConnected) })
ConnectedOnce(g) ==
    /\ bpc # <<>>
    /\ bpc[g] = "once"
    /\ IF OnceDo(onceOnSufficientlyConnected)
       THEN /\ onSufficientlyConnected' = onSufficientlyConnected + 1
            /\ onceOnSufficientlyConnected' = TRUE
            /\ closedBy' = closedBy \cup
                  { [op |-> bcall[g].op, nodeID |-> bcall[g].nodeID,
                     subnetID |-> bcall[g].subnetID, added |-> bret[g]] }
       ELSE UNCHANGED <<onSufficientlyConnected, onceOnSufficientlyConnected, closedBy>>
    /\ bpc' = [bpc EXCEPT ![g] = "route"]
    /\ UNCHANGED <<requiredConns, numConns, bcall, bret, ncalls,
                   orderVars, keyVars, valueVars, historyVars, lifeVars, iterVars>>

\* b.Router.Connected(nodeID, nodeVersion, subnetID), and the return.
ConnectedRoute(g) ==
    /\ bpc # <<>>
    /\ bpc[g] = "route"
    /\ bpc' = [bpc EXCEPT ![g] = "idle"]
    /\ bcall' = [bcall EXCEPT ![g] = NoCall]
    /\ bret' = [bret EXCEPT ![g] = 0]
    /\ UNCHANGED <<requiredConns, numConns, onSufficientlyConnected,
                   onceOnSufficientlyConnected, closedBy, ncalls,
                   orderVars, keyVars, valueVars, historyVars, lifeVars, iterVars>>

\* Disconnected is entered: the node is looked up.
DisconnectedEnter(g, nodeID) ==
    /\ bpc # <<>>
    /\ bpc[g] = "idle"
    /\ ncalls < MaxCalls
    /\ ncalls' = ncalls + 1
    /\ bcall' = [bcall EXCEPT ![g] =
                    [op |-> "Disconnected", nodeID |-> nodeID, subnetID |-> "none"]]
    /\ bpc' = [bpc EXCEPT ![g] = IF nodeID \in Beacons THEN "sub" ELSE "droute"]
    /\ UNCHANGED <<requiredConns, numConns, onSufficientlyConnected,
                   onceOnSufficientlyConnected, bret, closedBy,
                   orderVars, keyVars, valueVars, historyVars, lifeVars, iterVars>>

\* atomic.AddInt64(&b.numConns, -1)
DisconnectedAdd(g) ==
    /\ bpc # <<>>
    /\ bpc[g] = "sub"
    /\ numConns' = numConns - 1
    /\ bpc' = [bpc EXCEPT ![g] = "droute"]
    /\ UNCHANGED <<requiredConns, onSufficientlyConnected, onceOnSufficientlyConnected,
                   bcall, bret, closedBy, ncalls,
                   orderVars, keyVars, valueVars, historyVars, lifeVars, iterVars>>

\* b.Router.Disconnected(nodeID), and the return.
DisconnectedRoute(g) ==
    /\ bpc # <<>>
    /\ bpc[g] = "droute"
    /\ bpc' = [bpc EXCEPT ![g] = "idle"]
    /\ bcall' = [bcall EXCEPT ![g] = NoCall]
    /\ UNCHANGED <<requiredConns, numConns, onSufficientlyConnected,
                   onceOnSufficientlyConnected, bret, closedBy, ncalls,
                   orderVars, keyVars, valueVars, historyVars, lifeVars, iterVars>>

BeaconNext ==
    \E g \in Goroutines :
        \/ \E nodeID \in BeaconNodes, subnetID \in BeaconSubnets :
              ConnectedEnter(g, nodeID, subnetID)
        \/ ConnectedAdd(g)
        \/ ConnectedOnce(g)
        \/ ConnectedRoute(g)
        \/ \E nodeID \in BeaconNodes : DisconnectedEnter(g, nodeID)
        \/ DisconnectedAdd(g)
        \/ DisconnectedRoute(g)

SpecBeacon == BeaconInit /\ [][BeaconNext]_vars

(***************************************************************************)
(* The whole model: any one of the above.                                  *)
(***************************************************************************)
Init == OrderInit \/ KeyInit \/ KeysInit \/ ValueInit \/ HistoryInit \/ LifeInit \/ IterInit
          \/ BeaconInit

Next == OrderNext \/ KeyNext \/ KeysNext \/ ValueNext \/ HistoryNext \/ LifeNext \/ IterNextStep
          \/ BeaconNext

Spec == Init /\ [][Next]_vars

(***************************************************************************)
(* Claims about the staker ordering, checked under SpecOrder.              *)
(***************************************************************************)
\* x is lexicographically smaller than y: a proper prefix of it, or smaller at
\* the first byte where they differ.
LexLess(x, y) ==
    \/ Len(x) < Len(y) /\ \A j \in 1..Len(x) : x[j] = y[j]
    \/ \E i \in 1..Len(x) :
          /\ i <= Len(y)
          /\ x[i] < y[i]
          /\ \A j \in 1..(i - 1) : x[j] = y[j]

\* The order the specification states, on the sort key alone.
SortsBefore(s, t) ==
    \/ s.NextTime < t.NextTime
    \/ s.NextTime = t.NextTime /\ s.Priority < t.Priority
    \/ s.NextTime = t.NextTime /\ s.Priority = t.Priority /\ LexLess(s.TxID, t.TxID)

SameSortKey(s, t) ==
    s.NextTime = t.NextTime /\ s.Priority = t.Priority /\ s.TxID = t.TxID

\* C1: a.Less(b) is true exactly when a's NextTime is earlier, or the NextTimes
\* are equal and a's Priority is lower, or both are equal and a's TxID is the
\* lexicographically smaller; setting the other fields of a staker to anything
\* else leaves the result as it is.
C1_LessIsSortKeyOrder ==
    opc = "compared" =>
        /\ cmp.ab = SortsBefore(sa, sb)
        /\ cmp.ba = SortsBefore(sb, sa)
        /\ cmp.bc = SortsBefore(sb, sc)
        /\ cmp.ac = SortsBefore(sa, sc)
        /\ \A v \in 0..MaxVariant :
              LET s == Staker(sa.TxID, sa.NextTime, sa.Priority, v) IN
              /\ Less(s, sb) = cmp.ab
              /\ Less(sb, s) = cmp.ba

\* C1's case: NextTime and Priority tie, the TxIDs decide, and the two stakers
\* differ in every field Less must not read.
C1_Witness ==
    /\ opc = "compared"
    /\ sa.NextTime = sb.NextTime /\ sa.Priority = sb.Priority
    /\ sa.TxID # sb.TxID
    /\ cmp.ab
    /\ sa.Weight # sb.Weight /\ sa.NodeID # sb.NodeID /\ sa.StartTime # sb.StartTime

\* C2: Less is a strict order: never a.Less(a); never both a.Less(b) and
\* b.Less(a); a.Less(b) and b.Less(c) imply a.Less(c).
C2_LessIsStrictOrder ==
    opc = "compared" =>
        /\ ~cmp.aa
        /\ ~(cmp.ab /\ cmp.ba)
        /\ (cmp.ab /\ cmp.bc) => cmp.ac

\* C2's case: three stakers that tie on NextTime and Priority and are ordered
\* by TxID alone.
C2_Witness ==
    /\ opc = "compared"
    /\ sa.NextTime = sb.NextTime /\ sb.NextTime = sc.NextTime
    /\ sa.Priority = sb.Priority /\ sb.Priority = sc.Priority
    /\ cmp.ab /\ cmp.bc /\ cmp.ac

\* C3 as stated: of two distinct staker records exactly one is Less than the
\* other.
C3_DistinctRecordsNeverEqual ==
    (opc = "compared" /\ sa # sb) => (cmp.ab # cmp.ba)

\* C3 as amended: of two stakers whose (NextTime, Priority, TxID) differ exactly
\* one is Less than the other, and two stakers with the same (NextTime,
\* Priority, TxID) compare equal whatever their other fields.
C3_TotalOnSortKeys ==
    opc = "compared" =>
        /\ ~SameSortKey(sa, sb) => (cmp.ab # cmp.ba)
        /\ SameSortKey(sa, sb) => (~cmp.ab /\ ~cmp.ba)

\* C3's case: two distinct records, one Less than the other, that differ in
\* TxID alone.
C3_Witness ==
    /\ opc = "compared"
    /\ sa # sb
    /\ sa.NextTime = sb.NextTime /\ sa.Priority = sb.Priority
    /\ cmp.ba /\ ~cmp.ab

(***************************************************************************)
(* Claims about the diff key and weight diff codec.                        *)
(***************************************************************************)
\* p is a prefix of k.
IsPrefix(p, k) == Len(p) <= Len(k) /\ \A i \in 1..Len(p) : p[i] = k[i]

\* Byte i (1 the most significant, 8 the least) of the uint64 x.
ByteOf(x, i) ==
    LET limb == x[(i + 1) \div 2] IN
    IF i % 2 = 1 THEN limb \div 256 ELSE limb % 256

\* C4: unmarshalDiffKey of marshalDiffKey(subnetID, height, nodeID) returns no
\* error and exactly (subnetID, height, nodeID).
C4_DiffKeyRoundTrip ==
    (kpc = "unmarshalled" /\ buf = key) =>
        /\ out.err = "nil"
        /\ out.subnetID = coord.subnetID
        /\ out.height = coord.height
        /\ out.nodeID = coord.nodeID

\* C4's case: an undamaged key of the largest height, a subnet other than the
\* primary network and a 20-byte node ID that is not all zero has been decoded.
C4_Witness ==
    /\ kpc = "unmarshalled" /\ buf = key
    /\ coord.height = MaxUint64
    /\ coord.subnetID # EmptyID
    /\ Len(coord.nodeID) = 20 /\ coord.nodeID # MakeBytes(20)
    /\ out.height = MaxUint64

\* C5: unmarshalWeightDiff of marshalWeightDiff(d) returns no error and a diff
\* with d's Decrease flag and d's Amount.
C5_WeightDiffRoundTrip ==
    (wpc = "unmarshalled" /\ vbuf = value) =>
        /\ vout.err = "nil"
        /\ ~vout.isNil
        /\ vout.Decrease = diff.Decrease
        /\ vout.Amount = diff.Amount

\* C5's case: an undamaged decrease by the largest amount has been decoded.
C5_Witness ==
    /\ wpc = "unmarshalled" /\ vbuf = value
    /\ diff.Decrease /\ diff.Amount = MaxUint64
    /\ vout.Decrease

\* C6: of two keys with the same subnetID and nodeID, the key of the smaller
\* height is the lexicographically greater.
C6_DescendingHeightOrder ==
    (kpc \in {"second", "keys"}
        /\ coord.subnetID = coord2.subnetID
        /\ coord.nodeID = coord2.nodeID
        /\ U64Less(coord.height, coord2.height)) =>
        LexLess(key2, key)

\* C6's case: the keys of heights 255 and 256, whose encodings differ in two
\* bytes, of one node of one subnet.
C6_Witness ==
    /\ kpc = "keys"
    /\ coord.subnetID = coord2.subnetID /\ coord.nodeID = coord2.nodeID
    /\ coord.height = U64(0, 0, 0, 255) /\ coord2.height = U64(0, 0, 0, 256)
    /\ LexLess(key2, key)

\* C7: marshalStartDiffKey(subnetID, height) is a prefix of, and shorter than,
\* marshalDiffKey(subnetID, height, nodeID) for every nodeID, and is no prefix of
\* a key of another subnetID or another height.
C7_StartKeyIsPrefix ==
    kpc = "keys" =>
        /\ IsPrefix(startKey, key2) /\ Len(startKey) < Len(key2)
        /\ (coord.subnetID = coord2.subnetID /\ coord.height = coord2.height) =>
              (IsPrefix(startKey, key) /\ Len(startKey) < Len(key))
        /\ (coord.subnetID # coord2.subnetID \/ coord.height # coord2.height) =>
              ~IsPrefix(startKey, key)

\* C7's case: a start key set against a key of the same subnet and node at
\* another height.
C7_Witness ==
    /\ kpc = "keys"
    /\ coord.subnetID = coord2.subnetID /\ coord.nodeID = coord2.nodeID
    /\ coord.height # coord2.height
    /\ IsPrefix(startKey, key2) /\ ~IsPrefix(startKey, key)

\* C8: marshalDiffKey gives 60 bytes: the subnetID in bytes 0..31, the
\* big-endian bytes of the height, each complemented, in bytes 32..39, the
\* nodeID in bytes 40..59.
C8_DiffKeyLayout ==
    kpc \in {"marshalled", "damaged", "unmarshalled"} =>
        /\ Len(key) = 60
        /\ \A i \in 1..32 : key[i] = coord.subnetID[i]
        /\ \A i \in 1..8 : key[32 + i] = 255 - ByteOf(coord.height, i)
        /\ \A i \in 1..20 : key[40 + i] = coord.nodeID[i]

\* C8's case: the key of height 256 in a subnet other than the primary network.
C8_Witness ==
    /\ kpc = "marshalled"
    /\ coord.height = U64(0, 0, 0, 256)
    /\ coord.subnetID # EmptyID
    /\ key[39] = 254 /\ key[40] = 255

\* C9: marshalWeightDiff gives 9 bytes: byte 0 is 1 for a decrease and 0 for an
\* increase, bytes 1..8 are the big-endian bytes of the Amount.
C9_WeightDiffLayout ==
    wpc \in {"marshalled", "damaged", "unmarshalled"} =>
        /\ Len(value) = 9
        /\ value[1] = (IF diff.Decrease THEN 1 ELSE 0)
        /\ \A i \in 1..8 : value[1 + i] = ByteOf(diff.Amount, i)

\* C9's case: a decrease by 256 has been marshalled.
C9_Witness ==
    /\ wpc = "marshalled"
    /\ diff.Decrease /\ diff.Amount = U64(0, 0, 0, 256)
    /\ value[1] = 1 /\ value[8] = 1 /\ value[9] = 0

\* C10: unmarshalDiffKey returns an error exactly when its input is shorter than
\* 32 + 8 bytes, and then the empty subnetID, height 0 and the empty nodeID; of a
\* longer input it returns bytes 0..31 as the subnetID and the height whose
\* complement bytes 32..39 hold.
C10_UnmarshalDiffKeyErrors ==
    kpc = "unmarshalled" =>
        /\ (out.err # "nil") <=> (Len(buf) < 32 + 8)
        /\ out.err # "nil" =>
              (out.subnetID = EmptyID /\ out.height = Zero64 /\ out.nodeID = EmptyNodeID)
        /\ Len(buf) >= 32 + 8 =>
              /\ out.subnetID = SubSeq(buf, 1, 32)
              /\ \A i \in 1..8 : ByteOf(out.height, i) = 255 - buf[32 + i]

\* C10's case: an input of exactly 32 + 8 bytes, cut from a key, has been
\* decoded without an error.
C10_Witness ==
    /\ kpc = "unmarshalled"
    /\ Len(buf) = 40 /\ buf # SubSeq(key, 1, 40)
    /\ out.err = "nil"

\* C11: unmarshalDiffKey of a key of 59 bytes, one short of the 60 of a whole
\* key, returns an error and none of the key's subnetID, height and nodeID.
C11_ShortKeyIsMalformed ==
    (kpc = "unmarshalled" /\ Len(buf) = 59) =>
        /\ out.err # "nil"
        /\ out.subnetID = EmptyID /\ out.height = Zero64 /\ out.nodeID = EmptyNodeID

\* C12: unmarshalWeightDiff returns an error and a nil diff exactly when its
\* input is not 9 bytes long, shorter or longer.
C12_UnmarshalWeightDiffErrors ==
    wpc = "unmarshalled" =>
        /\ (vout.err # "nil") <=> (Len(vbuf) # 9)
        /\ vout.isNil <=> (Len(vbuf) # 9)

\* C12's case: a value of 10 bytes has been refused.
C12_Witness ==
    /\ wpc = "unmarshalled"
    /\ Len(vbuf) = 10
    /\ vout.err # "nil" /\ vout.isNil

(***************************************************************************)
(* Claims about the weight diffs as an undo log, checked under SpecHistory.*)
(***************************************************************************)
\* C13: undoing, from the latest weight, every stored diff of a height above H
\* and none of a height up to H gives the weight the staker had after block H;
\* with an increase of 50 in block 1 and a decrease of 20 in block 5 alone, the
\* weight rebuilt for height 3 is the baseline plus 50 and for height 0 the
\* baseline.
C13_UndoLogReconstruction ==
    hpc = "reconstructed" =>
        /\ hrecon = hlog[htarget + 1]
        /\ (/\ Len(hlog) = 6
            /\ hlog[2] = hlog[1] + 50
            /\ hlog[3] = hlog[2] /\ hlog[4] = hlog[2] /\ hlog[5] = hlog[2]
            /\ hlog[6] = hlog[5] - 20) =>
              /\ htarget = 3 => hrecon = hlog[1] + 50
              /\ htarget = 0 => hrecon = hlog[1]

\* C13's case: after an increase of 50 in block 1 and a decrease of 20 in block
\* 5, the weight after block 3 has been rebuilt from the weight after block 5.
C13_Witness ==
    /\ hpc = "reconstructed"
    /\ hlog = <<100, 150, 150, 150, 150, 130>>
    /\ htarget = 3
    /\ hrecon = 150

(***************************************************************************)
(* Claims about the staker lifecycle, checked under SpecLife.              *)
(***************************************************************************)
\* The smallest k >= 0 such that nextTime + k * period is not before stopTime,
\* for a period above 0.
BoundaryIndex(nextTime, period, stopTime) ==
    IF stopTime <= nextTime THEN 0
    ELSE (stopTime - nextTime + period - 1) \div period

\* C14: when PublicKey() succeeds, NewCurrentStaker returns a staker whose
\* EndTime is mockable.MaxTime, whose StartTime is the argument startTime, whose
\* StakingPeriod is the transaction's, whose NextTime is startTime plus
\* StakingPeriod, whose Priority is the transaction's current priority, whose
\* PotentialReward is the argument, and whose TxID, NodeID, SubnetID, Weight and
\* PublicKey are those of the arguments.
C14_NewCurrentStakerFields ==
    (lop = "NewCurrentStaker" /\ ltx.PublicKeyErr = "nil") =>
        /\ lerr = "nil"
        /\ stk.EndTime = MaxTime
        /\ stk.StartTime = lstart
        /\ stk.StakingPeriod = ltx.StakingPeriod
        /\ stk.NextTime = lstart + ltx.StakingPeriod
        /\ stk.Priority = ltx.CurrentPriority
        /\ stk.PotentialReward = lreward
        /\ stk.TxID = LifeTxID
        /\ stk.NodeID = ltx.NodeID
        /\ stk.SubnetID = ltx.SubnetID
        /\ stk.Weight = ltx.Weight
        /\ stk.PublicKey = ltx.PublicKey

\* C14's case: a current staker of period 1000 has been built at time 60 with
\* a reward of 77.
C14_Witness ==
    /\ lop = "NewCurrentStaker"
    /\ lpc = "live"
    /\ lstart = 60 /\ lreward = 77
    /\ stk.PublicKey = "blsKey"
    /\ stk.NextTime = 1060 /\ stk.EndTime = MaxTime

\* C15: when PublicKey() fails, NewCurrentStaker and NewPendingStaker return
\* its error and a nil staker, and they return an error in no other case.
C15_ConstructorFailsOnKeyErrorOnly ==
    lop \in {"NewCurrentStaker", "NewPendingStaker"} =>
        /\ lerr = ltx.PublicKeyErr
        /\ (ltx.PublicKeyErr # "nil") => (stk = NilStaker /\ lpc = "failed")
        /\ (ltx.PublicKeyErr = "nil") => (stk # NilStaker /\ lpc = "live")

\* C15's case: NewPendingStaker has returned the error of PublicKey() and nil.
C15_Witness ==
    /\ lop = "NewPendingStaker"
    /\ ltx.PublicKeyErr = "errPublicKey"
    /\ lerr = "errPublicKey"
    /\ stk = NilStaker

\* C16: when PublicKey() succeeds, NewPendingStaker returns a staker whose
\* StartTime and EndTime are the transaction's, whose NextTime is StartTime,
\* whose StakingPeriod is EndTime - StartTime, whose Priority is the
\* transaction's pending priority and whose PotentialReward is 0.
C16_NewPendingStakerFields ==
    (lop = "NewPendingStaker" /\ ltx.PublicKeyErr = "nil") =>
        /\ lerr = "nil"
        /\ stk.StartTime = ltx.StartTime
        /\ stk.EndTime = ltx.EndTime
        /\ stk.NextTime = stk.StartTime
        /\ stk.StakingPeriod = stk.EndTime - stk.StartTime
        /\ stk.Priority = ltx.PendingPriority
        /\ stk.PotentialReward = 0

\* C16's case: a pending staker has been built from a transaction whose own
\* staking period, 100, is not the length of its time span, 500.
C16_Witness ==
    /\ lop = "NewPendingStaker"
    /\ lpc = "live"
    /\ ltx.StakingPeriod = 100
    /\ stk.StakingPeriod = 500
    /\ stk.NextTime = 40 /\ stk.EndTime = 540

\* C17: ShiftStakerAheadInPlace leaves a staker of a pending priority, and one
\* whose NextTime is its EndTime, as it was; of any other it moves StartTime and
\* NextTime ahead by StakingPeriod.
C17_ShiftStakerAhead ==
    lop = "ShiftStakerAheadInPlace" =>
        IF IsPending(lprev.Priority) \/ lprev.NextTime = lprev.EndTime
        THEN stk = lprev
        ELSE /\ stk.StartTime = lprev.StartTime + lprev.StakingPeriod
             /\ stk.NextTime = lprev.NextTime + lprev.StakingPeriod

\* C17's case: a current staker that had been moved ahead and has reached its
\* EndTime was shifted again, to no effect.
C17_Witness ==
    /\ lop = "ShiftStakerAheadInPlace"
    /\ ~IsPending(lprev.Priority)
    /\ nshift > 0
    /\ lprev.NextTime = lprev.EndTime
    /\ stk = lprev

\* C18, as stated: a current staker of period 1000 built at startTime T has,
\* after two shifts, NextTime = T + 2000 and StartTime = T + 1000.
C18_TwoShiftsAsStated ==
    (/\ lpc = "live"
     /\ ~IsPending(stk.Priority)
     /\ stk.StakingPeriod = 1000
     /\ stk.EndTime = MaxTime
     /\ nshift = 2) =>
        /\ stk.NextTime = lstart + 2000
        /\ stk.StartTime = lstart + 1000

\* C18, amended: a current staker of period 1000 built at startTime T, whose
\* NextTime is T + 1000 from the start, has NextTime = T + 2000 and StartTime =
\* T + 1000 after one shift, and NextTime = T + 3000 and StartTime = T + 2000
\* after two.
C18_ShiftsOfACurrentStaker ==
    (/\ lpc = "live"
     /\ ~IsPending(stk.Priority)
     /\ stk.StakingPeriod = 1000
     /\ stk.EndTime = MaxTime) =>
        /\ nshift = 0 => (stk.NextTime = lstart + 1000 /\ stk.StartTime = lstart)
        /\ nshift = 1 => (stk.NextTime = lstart + 2000 /\ stk.StartTime = lstart + 1000)
        /\ nshift = 2 => (stk.NextTime = lstart + 3000 /\ stk.StartTime = lstart + 2000)

\* C18's case: a current staker of period 1000 has been shifted twice.
C18_Witness ==
    /\ lop = "ShiftStakerAheadInPlace"
    /\ ~IsPending(stk.Priority)
    /\ stk.StakingPeriod = 1000
    /\ stk.EndTime = MaxTime
    /\ lstart = 0
    /\ nshift = 2
    /\ stk.NextTime = 3000 /\ stk.StartTime = 2000

\* C19: EarliestStopTime is the lesser of NextTime + StakingPeriod and EndTime
\* for a staker of a validator priority in the primary network, the lesser of
\* NextTime and EndTime for any other; it is never after EndTime.
C19_EarliestStopTime ==
    lop = "EarliestStopTime" =>
        LET candidate ==
                IF IsValidator(stk.Priority) /\ stk.SubnetID = PrimaryNetworkID
                THEN stk.NextTime + stk.StakingPeriod
                ELSE stk.NextTime
        IN  /\ est \in {candidate, stk.EndTime}
            /\ est <= candidate
            /\ est <= stk.EndTime

\* C19's case: a validator of the primary network was given NextTime +
\* StakingPeriod, which is before its EndTime.
C19_Witness ==
    /\ lop = "EarliestStopTime"
    /\ stk.Priority = PrimaryNetworkValidatorCurrentPriority
    /\ stk.SubnetID = PrimaryNetworkID
    /\ stk.StakingPeriod > 0
    /\ est = stk.NextTime + stk.StakingPeriod
    /\ est < stk.EndTime

\* C20: MarkStakerForRemovalInPlaceBeforeTime with a stopTime before EndTime and
\* a StakingPeriod above 0 sets EndTime to NextTime + k * StakingPeriod for the
\* smallest k >= 0 that makes it not before stopTime, which is NextTime itself
\* when stopTime is not after NextTime; with a stopTime not before EndTime it
\* leaves the staker as it was.  With NextTime = T, StakingPeriod = 100, EndTime
\* = T + 10000 and stopTime = T + 250, EndTime becomes T + 300.
C20_MarkForRemoval ==
    (lop = "MarkStakerForRemovalInPlaceBeforeTime" /\ lpc = "live") =>
        IF lstop < lprev.EndTime
        THEN /\ lprev.StakingPeriod > 0 =>
                  LET k == BoundaryIndex(lprev.NextTime, lprev.StakingPeriod, lstop) IN
                  /\ stk.EndTime = lprev.NextTime + k * lprev.StakingPeriod
                  /\ stk.EndTime >= lstop
                  /\ k > 0 => stk.EndTime - lprev.StakingPeriod < lstop
                  /\ lstop <= lprev.NextTime => stk.EndTime = lprev.NextTime
             /\ (/\ lprev.StakingPeriod = 100
                 /\ lprev.EndTime = lprev.NextTime + 10000
                 /\ lstop = lprev.NextTime + 250) =>
                    stk.EndTime = lprev.NextTime + 300
        ELSE stk = lprev

\* C20's case: the staker with NextTime = 100, StakingPeriod = 100 and EndTime =
\* 10100 was marked for removal before 350, and its EndTime is 400.
C20_Witness ==
    /\ lop = "MarkStakerForRemovalInPlaceBeforeTime"
    /\ lpc = "live"
    /\ lprev.NextTime = 100 /\ lprev.StakingPeriod = 100 /\ lprev.EndTime = 10100
    /\ lstop = 350
    /\ stk.EndTime = 400

(***************************************************************************)
(* Claims about the staker iterator, checked under SpecIter.               *)
(***************************************************************************)
\* C21: an iterator goes forward only over finitely many stakers; Next()
\* returns true and moves to the next staker while there is one and false once
\* there is none, from then on always; Value() after a Next() that returned true
\* is the staker the iterator stands on; and whether Release() has been called
\* or not, the stakers given to the consumer are the first of the sequence, in
\* its order, each once.
C21_IteratorProtocol ==
    /\ [](ipc # "idle" =>
            /\ icur \in 0..Len(isrc)
            /\ iok = "false" => icur = Len(isrc)
            /\ iok = "true" => icur >= 1
            /\ (ilast = "Value" /\ iok = "true") => ival = isrc[icur]
            /\ iseen = SubSeq(isrc, 1, icur))
    /\ [][/\ icur' >= icur
          /\ iok = "false" => iok' = "false"
          /\ ilast' = "Next" => (iok' = "true" <=> icur < Len(isrc))
          /\ ilast' # "Next" => (icur' = icur /\ iseen' = iseen)
          /\ ipc = "released" => ipc' = "released"]_vars

\* C21's case: the consumer has gone through three stakers to the end, read
\* the last one, been told that there are no more, and has not released the
\* iterator.
C21_Witness ==
    /\ ipc = "open"
    /\ Len(isrc) = 3
    /\ iok = "false"
    /\ ival = isrc[3]
    /\ iseen = isrc

\* C22: MarkStakerForRemovalInPlaceBeforeTime returns, whatever the staker and
\* the stopTime: a call that has entered its loop leaves it, also when
\* StakingPeriod is 0.
C22_MarkTerminates == (lpc = "marking") ~> (lpc = "live")

\* C23: ShiftStakerAheadInPlace changes no field but StartTime and NextTime,
\* MarkStakerForRemovalInPlaceBeforeTime none but EndTime, which leaves the sort
\* key (NextTime, Priority, TxID) as it was, and EarliestStopTime none at all;
\* no step of a staker's life changes its StakingPeriod, Weight, TxID, NodeID,
\* SubnetID, Priority or PotentialReward.
C23_Frame ==
    /\ [](lpc \in {"live", "marking"} =>
            /\ lop = "ShiftStakerAheadInPlace" =>
                  stk = [lprev EXCEPT !.StartTime = stk.StartTime,
                                      !.NextTime = stk.NextTime]
            /\ lop = "MarkStakerForRemovalInPlaceBeforeTime" =>
                  /\ stk = [lprev EXCEPT !.EndTime = stk.EndTime]
                  /\ stk.NextTime = lprev.NextTime
                  /\ stk.Priority = lprev.Priority
                  /\ stk.TxID = lprev.TxID
            /\ lop = "EarliestStopTime" => stk = lprev)
    /\ [][(lpc \in {"live", "marking"}) =>
            /\ stk'.StakingPeriod = stk.StakingPeriod
            /\ stk'.Weight = stk.Weight
            /\ stk'.TxID = stk.TxID
            /\ stk'.NodeID = stk.NodeID
            /\ stk'.SubnetID = stk.SubnetID
            /\ stk'.Priority = stk.Priority
            /\ stk'.PotentialReward = stk.PotentialReward]_vars

\* C23's case: a staker that had been moved ahead has been marked for removal,
\* which brought its EndTime forward and left its NextTime.
C23_Witness ==
    /\ lop = "MarkStakerForRemovalInPlaceBeforeTime"
    /\ lpc = "live"
    /\ nshift > 0
    /\ stk.EndTime < lprev.EndTime
    /\ stk.NextTime = lprev.NextTime
    /\ stk.NextTime < stk.EndTime

(***************************************************************************)
(* Further claims about the order of the diff keys, checked under SpecKeys.*)
(***************************************************************************)
\* The order of the coordinates: subnetID ascending, then height descending,
\* then nodeID ascending.
CoordinateBefore(x, y) ==
    \/ LexLess(x.subnetID, y.subnetID)
    \/ x.subnetID = y.subnetID /\ U64Less(y.height, x.height)
    \/ x.subnetID = y.subnetID /\ x.height = y.height /\ LexLess(x.nodeID, y.nodeID)

\* C24: marshalDiffKey(x) is bytewise less than marshalDiffKey(y) exactly when
\* x's subnetID is smaller, or the subnetIDs are equal and x's height is larger,
\* or both are equal and x's nodeID is smaller; so the keys of two subnets are
\* ordered as the subnets are, whatever their heights and nodeIDs, and a key
\* that lies between the start key of a (subnetID, height) and a key of that
\* (subnetID, height) is itself a key of it.
C24_DiffKeyOrder ==
    (kpc \in {"second", "keys"}) =>
        /\ LexLess(key, key2) <=> CoordinateBefore(coord, coord2)
        /\ LexLess(key2, key) <=> CoordinateBefore(coord2, coord)
        /\ key = key2 <=> coord = coord2
        /\ coord.subnetID # coord2.subnetID =>
              (LexLess(key, key2) <=> LexLess(coord.subnetID, coord2.subnetID))
        /\ (kpc = "keys" /\ ~LexLess(key, startKey) /\ ~LexLess(key2, key)) =>
              (coord.subnetID = coord2.subnetID /\ coord.height = coord2.height)

\* C24's case: in one subnet, the key of the larger height and the greater
\* nodeID comes before the key of the smaller height and the lesser nodeID.
C24_Witness ==
    /\ kpc = "keys"
    /\ coord.subnetID = coord2.subnetID
    /\ U64Less(coord2.height, coord.height)
    /\ LexLess(coord2.nodeID, coord.nodeID)
    /\ LexLess(key, key2)

(***************************************************************************)
(* Claims about whole lives of a staker, checked under SpecLife.           *)
(***************************************************************************)
\* C25: whatever shifts and marks for removal a staker built by NewCurrentStaker
\* or NewPendingStaker goes through, its NextTime is never after its EndTime,
\* and an EndTime other than mockable.MaxTime is its NextTime plus a whole
\* number of StakingPeriods.
C25_NextTimeNotAfterEndTime ==
    lpc \in {"live", "marking"} =>
        /\ stk.NextTime <= stk.EndTime
        /\ stk.EndTime # MaxTime =>
              IF stk.StakingPeriod = 0
              THEN stk.EndTime = stk.NextTime
              ELSE (stk.EndTime - stk.NextTime) % stk.StakingPeriod = 0

\* C25's case: a current staker, shifted, marked for removal before a time
\* that is no boundary of its periods, and shifted again, is short of its
\* EndTime by one period.
C25_Witness ==
    /\ lpc = "live"
    /\ lop = "ShiftStakerAheadInPlace"
    /\ ~IsPending(stk.Priority)
    /\ nshift >= 2
    /\ stk.EndTime # MaxTime
    /\ stk.EndTime = stk.NextTime + stk.StakingPeriod
    /\ lstop > 0 /\ lstop % stk.StakingPeriod # 0

\* C26: a current staker of a StakingPeriod above 0 that has been marked for
\* removal with a stopTime before its EndTime comes, shifted again and again, to
\* NextTime = EndTime (if the shifts the model allows reach that far); and once
\* a current staker has NextTime = EndTime, its StartTime, NextTime and EndTime
\* stay as they are for ever.
C26_EndOfLifeIsReached ==
    /\ (/\ lpc = "live"
        /\ lop = "MarkStakerForRemovalInPlaceBeforeTime"
        /\ lstop < lprev.EndTime
        /\ ~IsPending(stk.Priority)
        /\ stk.StakingPeriod > 0
        /\ stk.EndTime - stk.NextTime <= (MaxShifts - nshift) * stk.StakingPeriod)
          ~> (lpc = "live" /\ stk.NextTime = stk.EndTime)
    /\ [][(/\ lpc \in {"live", "marking"}
           /\ ~IsPending(stk.Priority)
           /\ stk.NextTime = stk.EndTime) =>
              /\ stk'.StartTime = stk.StartTime
              /\ stk'.NextTime = stk.NextTime
              /\ stk'.EndTime = stk.EndTime]_vars

\* C26's case: a current staker marked for removal two periods ahead has been
\* shifted twice, has reached its EndTime, and a third shift has left it there.
C26_Witness ==
    /\ lpc = "live"
    /\ lop = "ShiftStakerAheadInPlace"
    /\ ~IsPending(stk.Priority)
    /\ stk.StakingPeriod > 0
    /\ nshift >= 2
    /\ lprev = stk
    /\ stk.NextTime = stk.EndTime
    /\ lstop > stk.EndTime - stk.StakingPeriod

\* A staker that has just been marked for removal before its own earliest stop
\* time.
MarkedAtEarliestStopTime ==
    /\ lpc = "live"
    /\ lop = "MarkStakerForRemovalInPlaceBeforeTime"
    /\ lstop = EarliestStopTime(lprev)

\* The staker can be shifted once and no more, or not at all.
ShiftsExactlyOnce(s) ==
    /\ ShiftStakerAheadInPlace(s) # s
    /\ ShiftStakerAheadInPlace(ShiftStakerAheadInPlace(s)) = ShiftStakerAheadInPlace(s)

ShiftsNoMore(s) == ShiftStakerAheadInPlace(s) = s

\* C27, as stated: marking a staker for removal before t, its EarliestStopTime,
\* leaves its EndTime equal to t; after that a validator of the primary network
\* whose t was NextTime + StakingPeriod can be shifted exactly once more, and
\* any other staker not at all.
C27_AsStated ==
    MarkedAtEarliestStopTime =>
        /\ stk.EndTime = lstop
        /\ IF /\ IsValidator(lprev.Priority)
              /\ lprev.SubnetID = PrimaryNetworkID
              /\ lstop = lprev.NextTime + lprev.StakingPeriod
           THEN ShiftsExactlyOnce(stk)
           ELSE ShiftsNoMore(stk)

\* C27, amended: marking a staker for removal before t, its EarliestStopTime,
\* leaves its EndTime equal to t; after that a current validator of the primary
\* network with a StakingPeriod above 0 whose t was NextTime + StakingPeriod can
\* be shifted exactly once more, and any other staker, a pending one and one of
\* StakingPeriod 0 included, not at all.
C27_EarliestStopIsAttainable ==
    MarkedAtEarliestStopTime =>
        /\ stk.EndTime = lstop
        /\ IF /\ IsValidator(lprev.Priority)
              /\ lprev.SubnetID = PrimaryNetworkID
              /\ lstop = lprev.NextTime + lprev.StakingPeriod
              /\ ~IsPending(lprev.Priority)
              /\ lprev.StakingPeriod > 0
           THEN ShiftsExactlyOnce(stk)
           ELSE ShiftsNoMore(stk)

\* C27's case: a current validator of the primary network, asked for its
\* earliest stop time, one period after its NextTime, was marked for removal
\* before that time, which is its EndTime now.
C27_Witness ==
    /\ MarkedAtEarliestStopTime
    /\ lstop = est
    /\ stk.Priority = PrimaryNetworkValidatorCurrentPriority
    /\ stk.StakingPeriod > 0
    /\ lprev.EndTime = MaxTime
    /\ stk.EndTime = stk.NextTime + stk.StakingPeriod
    /\ ShiftsExactlyOnce(stk)

C29_StartKeyIsLowerBound ==
    (kpc = "keys" /\ coord.subnetID = coord2.subnetID) =>
        /\ ~LexLess(key, startKey) <=> ~U64Less(coord2.height, coord.height)
        /\ BytesCompare(key, startKey) # -1 <=> ~U64Less(coord2.height, coord.height)
        /\ key # startKey

\* C29's case: the key of height 256 and of the node of all zero bytes but the
\* last lies below the start key of height 255, and so outside a scan from it.
C29_Witness ==
    /\ kpc = "keys"
    /\ coord.subnetID = coord2.subnetID
    /\ coord.height = U64(0, 0, 0, 256) /\ coord2.height = U64(0, 0, 0, 255)
    /\ coord.nodeID = IDBytes(NodeIDLen, 0, 1)
    /\ LexLess(key, startKey)

(***************************************************************************)
(* The claim about beaconManager, checked under SpecBeacon.                *)
(***************************************************************************)
\* C30: however the calls of Connected and Disconnected interleave, the
\* channel onSufficientlyConnected is closed at most once; it is closed only by
\* a call of Connected for a beacon on the primary network whose add returned
\* at least requiredConns; and once closed it is closed for good, also when
\* numConns falls below requiredConns again.
C30_ClosedOnceAndForGood ==
    /\ [](/\ onSufficientlyConnected <= 1
          /\ onSufficientlyConnected = 1 <=> onceOnSufficientlyConnected
          /\ \A c \in closedBy :
                /\ c.op = "Connected"
                /\ c.nodeID \in Beacons
                /\ c.subnetID = "PrimaryNetworkID"
                /\ c.added >= requiredConns
          /\ onSufficientlyConnected >= 1 <=> closedBy # {})
    /\ [][onSufficientlyConnected >= 1 =>
             onSufficientlyConnected' = onSufficientlyConnected]_vars

\* C30's case: the channel has been closed, a beacon has disconnected since, so
\* that numConns is below requiredConns, and a goroutine whose add returned
\* enough stands before the sync.Once again.
C30_Witness ==
    /\ bpc # <<>>
    /\ onSufficientlyConnected = 1
    /\ numConns < requiredConns
    /\ \E g \in Goroutines : bpc[g] = "once" /\ bret[g] >= requiredConns

====
